---- MODULE Spec2Model ----
(***************************************************************************)
(* Model of the SkyLink drone (src/src/my_drone.rs): a network of drone    *)
(* threads, each owning a packet channel, a command channel, a neighbor    *)
(* table (packet_send), a drop rate (pdr), a set of seen flood ids         *)
(* (flood_ids) and the crashing flag.  One action per arm of the run loop. *)
(***************************************************************************)
EXTENDS Integers, Sequences, FiniteSets, TLC

\* ------------------------------------------------------------------ bounds
\* Longest routing header (hops) the environment injects.
MaxHops == 2
\* Longest path_trace of an injected FloodRequest.
MaxTrace == 2
\* Most packets queued on one packet channel.
MaxQueue == 2

\* ------------------------------------------------------------------- nodes
Client == 0
Drones == {1, 2, 3}
Nodes == {Client} \cup Drones

\* NodeType of a node (wg_2024::packet::NodeType).
NodeTypeOf(n) == IF n \in Drones THEN "Drone" ELSE "Client"

\* --------------------------------------------------------------- sequences
RECURSIVE Rev(_)
\* Iterator::rev().collect() on a Vec.
Rev(s) == IF s = <<>> THEN <<>> ELSE Append(Rev(Tail(s)), Head(s))

\* All sequences over S of length lo..hi.
SeqsBetween(S, lo, hi) == UNION {[1..n -> S] : n \in lo..hi}

\* ----------------------------------------------------------------- packets
\* NackType; node is the payload of ErrorInRouting / UnexpectedRecipient.
NoNack == [reason |-> "None", node |-> 0]
Dropped == [reason |-> "Dropped", node |-> 0]
DestinationIsDrone == [reason |-> "DestinationIsDrone", node |-> 0]
ErrorInRouting(n) == [reason |-> "ErrorInRouting", node |-> n]
UnexpectedRecipient(n) == [reason |-> "UnexpectedRecipient", node |-> n]

\* PacketType, one record shape for the five variants.
PackType(tag, fi, nt, fid, trace) ==
    [tag |-> tag, fragment_index |-> fi, nack_type |-> nt,
     flood_id |-> fid, path_trace |-> trace]
MsgFragment(fi) == PackType("MsgFragment", fi, NoNack, 0, <<>>)
Ack(fi) == PackType("Ack", fi, NoNack, 0, <<>>)
Nack(fi, nt) == PackType("Nack", fi, nt, 0, <<>>)
FloodRequest(fid, trace) == PackType("FloodRequest", 0, NoNack, fid, trace)
FloodResponse(fid, trace) == PackType("FloodResponse", 0, NoNack, fid, trace)

\* Packet { pack_type, routing_header { hop_index, hops }, session_id }.
\* hop_index is 0-based as in the source; hops is a 1-based TLA+ sequence.
Packet(pt, hops, hi, sid) ==
    [pack_type |-> pt, hops |-> hops, hop_index |-> hi, session_id |-> sid]

\* hops[i] of the source (0-based); the caller checks InBounds first.
HopAt(p, i) == p.hops[i + 1]
InBounds(p, i) == i < Len(p.hops)

NoPacket == Packet(PackType("None", 0, NoNack, 0, <<>>), <<>>, 0, 0)

\* ------------------------------------------------------------------- state
VARIABLES
    packet_send,      \* [Drones -> SUBSET Nodes]: keys of the neighbor table;
                      \* the Sender under key n feeds n's packet channel
    pdr,              \* [Drones -> Nat]: drop rate as stored (u32)
    flood_ids,        \* [Drones -> SUBSET Nat]
    crashing,         \* [Drones -> BOOLEAN]
    packet_recv,      \* [Drones -> Seq(Packet)]: packets queued on the channel
    controller_recv,  \* [Drones -> Seq(Command)]: commands queued
    thread,           \* [Drones -> {"running", "panicked", "returned"}]
    client_up,        \* the client still holds the receiver of its channel
    pkt_closed,       \* drones whose packet channel has lost every Sender
    cmd_closed,       \* drones whose command channel has lost its Sender
    packet_from,      \* history: [Drones -> Seq(Nodes)], the node that sent
                      \* each packet queued on packet_recv, in the same order
    serviced,         \* history: [Drones -> SUBSET Nat], the flood ids each
                      \* drone has handled since the last packet was sent in
    obs               \* what the last step of a drone did

vars == <<packet_send, pdr, flood_ids, crashing, packet_recv, controller_recv,
          packet_from, thread, client_up, pkt_closed, cmd_closed, serviced, obs>>

\* ------------------------------------------------------------ environment
\* The receiver of n's packet channel still exists: a drone's receiver lives
\* as long as its thread, the client's as long as the client keeps it.
Alive(n) == IF n \in Drones THEN thread[n] = "running" ELSE client_up

\* ------------------------------------------------------------- mod error
\* Mutant: the header is copied, not reversed.
create_error_keep(packet, nack_type) ==
    Packet(Nack(IF packet.pack_type.tag = "MsgFragment"
                  THEN packet.pack_type.fragment_index ELSE 0, nack_type),
           packet.hops, 1, packet.session_id)

create_error(packet, nack_type) ==
    LET fragment_index == IF packet.pack_type.tag = "MsgFragment"
                            THEN packet.pack_type.fragment_index ELSE 0
    IN Packet(Nack(fragment_index, nack_type), Rev(packet.hops), 1,
              packet.session_id)

\* ------------------------------------------------------ mod check_packet
\* Result<(), Packet> of one check; Panic is an out-of-bounds index.
CheckOk == [tag |-> "Ok", pkt |-> NoPacket]
CheckErr(p) == [tag |-> "Err", pkt |-> p]
CheckPanic == [tag |-> "Panic", pkt |-> NoPacket]

\* Mutant: the cursor is advanced before the comparison.
id_hop_match_check_advanced(d, packet) ==
    IF ~InBounds(packet, packet.hop_index + 1) THEN CheckPanic
    ELSE IF HopAt(packet, packet.hop_index + 1) = d THEN CheckOk
    ELSE CheckErr(create_error([packet EXCEPT !.hop_index = @ + 1],
                               UnexpectedRecipient(d)))

id_hop_match_check(d, packet) ==
    IF ~InBounds(packet, packet.hop_index) THEN CheckPanic
    ELSE IF HopAt(packet, packet.hop_index) = d THEN CheckOk
    ELSE CheckErr(create_error(packet, UnexpectedRecipient(d)))

final_destination_check(packet) ==
    IF packet.hop_index < Len(packet.hops) THEN CheckOk
    ELSE CheckErr(create_error(packet, DestinationIsDrone))

is_next_hop_check(d, packet) ==
    IF ~InBounds(packet, packet.hop_index) THEN CheckPanic
    ELSE IF HopAt(packet, packet.hop_index) \in packet_send[d] THEN CheckOk
    ELSE CheckErr(create_error(packet, ErrorInRouting(d)))

\* fastrand::u32(0..101)
DrawMin == 0
DrawEnd == 101
Draws == DrawMin..(DrawEnd - 1)

pdr_check(d, packet, draw) ==
    IF packet.pack_type.tag = "MsgFragment" /\ draw > pdr[d]
      THEN CheckErr(create_error(packet, Dropped))
      ELSE CheckOk

\* ----------------------------------------------------------- apply_checks
\* Mutant: Ok carries the packet as received, the cursor not advanced.
apply_checks_unadvanced(d, packet, draw) ==
    LET advanced == [packet EXCEPT !.hop_index = @ + 1]
        c1 == id_hop_match_check(d, packet)
        c2 == final_destination_check(advanced)
        c3 == pdr_check(d, advanced, draw)
        c4 == is_next_hop_check(d, advanced)
    IN IF c1.tag # "Ok" THEN c1
       ELSE IF c2.tag # "Ok" THEN c2
       ELSE IF c3.tag # "Ok" THEN c3
       ELSE IF c4.tag # "Ok" THEN c4
       ELSE [tag |-> "Ok", pkt |-> packet]

\* Mutant: the next-hop check runs before the drop check.
apply_checks_next_hop_first(d, packet, draw) ==
    LET advanced == [packet EXCEPT !.hop_index = @ + 1]
        c1 == id_hop_match_check(d, packet)
        c2 == final_destination_check(advanced)
        c3 == pdr_check(d, advanced, draw)
        c4 == is_next_hop_check(d, advanced)
    IN IF c1.tag # "Ok" THEN c1
       ELSE IF c2.tag # "Ok" THEN c2
       ELSE IF c4.tag # "Ok" THEN c4
       ELSE IF c3.tag # "Ok" THEN c3
       ELSE [tag |-> "Ok", pkt |-> advanced]

\* Result<Packet, Packet>: Ok carries the packet with the advanced cursor.
apply_checks(d, packet, draw) ==
    LET advanced == [packet EXCEPT !.hop_index = @ + 1]
        c1 == id_hop_match_check(d, packet)
        c2 == final_destination_check(advanced)
        c3 == pdr_check(d, advanced, draw)
        c4 == is_next_hop_check(d, advanced)
    IN IF c1.tag # "Ok" THEN c1
       ELSE IF c2.tag # "Ok" THEN c2
       ELSE IF c3.tag # "Ok" THEN c3
       ELSE IF c4.tag # "Ok" THEN c4
       ELSE [tag |-> "Ok", pkt |-> advanced]

\* The draw is taken only when pdr_check is reached with a MsgFragment.
ReachesDraw(d, packet) ==
    /\ packet.pack_type.tag = "MsgFragment"
    /\ id_hop_match_check(d, packet).tag = "Ok"
    /\ final_destination_check([packet EXCEPT !.hop_index = @ + 1]).tag = "Ok"

\* ---------------------------------------------------------- handle_packet
\* What one call of a handler did: the result of apply_checks (None when it
\* was not called), the sends attempted in order (to: the key whose Sender
\* was used, ok: the send returned Ok), the NodeEvent::PacketSent events
\* emitted in order, and whether the call panicked.
NoChecks == [tag |-> "None", pkt |-> NoPacket]
Outcome(checks, sends, events, panic) ==
    [checks |-> checks, sends |-> sends, events |-> events, panic |-> panic]
SendTo(n, p) == [to |-> n, pkt |-> p, ok |-> Alive(n)]

\* The Ok arm (lines 119-130): forward, or on a failed send build the
\* ErrorInRouting Nack and send it on the same Sender, unwrapping the result.
ForwardChecked(d, c) ==
    LET packet == c.pkt
        next_hop == HopAt(packet, packet.hop_index)
        err == create_error(packet, ErrorInRouting(next_hop))
    IN IF Alive(next_hop)
         THEN Outcome(c, <<SendTo(next_hop, packet)>>, <<packet>>, FALSE)
         ELSE Outcome(c, <<SendTo(next_hop, packet), SendTo(next_hop, err)>>,
                      IF Alive(next_hop) THEN <<err>> ELSE <<>>,
                      ~Alive(next_hop))

\* Mutant: the Nack is sent to hops[0] of its header.
SendNack_first_hop(d, c) ==
    LET nack == c.pkt
    IN IF ~InBounds(nack, 0)
         THEN Outcome(c, <<>>, <<>>, TRUE)
       ELSE IF HopAt(nack, 0) \notin packet_send[d]
         THEN Outcome(c, <<>>, <<>>, TRUE)
       ELSE Outcome(c, <<SendTo(HopAt(nack, 0), nack)>>, <<>>,
                    ~Alive(HopAt(nack, 0)))

\* The Err arm (lines 132-136): hops[hop_index] of the Nack, get().unwrap(),
\* send().unwrap(); no event.
SendNack(d, c) ==
    LET nack == c.pkt
    IN IF ~InBounds(nack, nack.hop_index)
         THEN Outcome(c, <<>>, <<>>, TRUE)
       ELSE IF HopAt(nack, nack.hop_index) \notin packet_send[d]
         THEN Outcome(c, <<>>, <<>>, TRUE)
       ELSE Outcome(c, <<SendTo(HopAt(nack, nack.hop_index), nack)>>, <<>>,
                    ~Alive(HopAt(nack, nack.hop_index)))

\* The non-flood branch of handle_packet (lines 115-138).
HandleRouted(d, packet, draw) ==
    LET c == apply_checks(d, packet, draw)
    IN CASE c.tag = "Panic" -> Outcome(c, <<>>, <<>>, TRUE)
         [] c.tag = "Ok" -> ForwardChecked(d, c)
         [] OTHER -> SendNack(d, c)

\* path_trace ids, reversed (lines 173-177).
TraceIds(trace) == [i \in 1..Len(trace) |-> trace[i][1]]

\* send_flood_response (lines 162-183): the response goes through
\* handle_packet, then one PacketSent(resp) is emitted.
send_flood_response(d, flood) ==
    LET resp == Packet(FloodResponse(flood.flood_id, flood.path_trace),
                       Rev(TraceIds(flood.path_trace)), 1, flood.flood_id)
        o == HandleRouted(d, resp, DrawMin)
    IN IF o.panic THEN o ELSE [o EXCEPT !.events = Append(@, resp)]

RECURSIVE Broadcast(_, _, _)
\* The loop of lines 105-112 over the keys in iteration order ord: the
\* inbound packet itself is sent to every key but prev.
Broadcast(ord, prev, packet) ==
    IF ord = <<>> THEN Outcome(NoChecks, <<>>, <<>>, FALSE)
    ELSE LET rest == Broadcast(Tail(ord), prev, packet)
             s == SendTo(Head(ord), packet)
         IN IF Head(ord) = prev THEN rest
            ELSE [rest EXCEPT !.sends = <<s>> \o @,
                              !.events = IF s.ok THEN <<packet>> \o @ ELSE @]

\* Mutant: the len() == 1 test of line 101 is left out.
HandleFlood_no_dead_end(d, packet, ord) ==
    LET trace == packet.pack_type.path_trace
        prev == trace[Len(trace)][1]
        flood_request == [packet.pack_type EXCEPT
                            !.path_trace = Append(trace, <<d, "Drone">>)]
    IN IF Len(trace) = 0 THEN Outcome(NoChecks, <<>>, <<>>, TRUE)
       ELSE IF flood_request.flood_id \in flood_ids[d]
         THEN send_flood_response(d, flood_request)
       ELSE Broadcast(ord, prev, packet)

\* The FloodRequest branch of handle_packet (lines 92-114).
HandleFlood(d, packet, ord) ==
    LET trace == packet.pack_type.path_trace
        prev == trace[Len(trace)][1]
        flood_request == [packet.pack_type EXCEPT
                            !.path_trace = Append(trace, <<d, "Drone">>)]
    IN IF Len(trace) = 0 THEN Outcome(NoChecks, <<>>, <<>>, TRUE)
       ELSE IF flood_request.flood_id \in flood_ids[d]
         THEN send_flood_response(d, flood_request)
       ELSE IF Cardinality(packet_send[d]) = 1
         THEN send_flood_response(d, flood_request)
       ELSE Broadcast(ord, prev, packet)

handle_packet(d, packet, draw, ord) ==
    IF packet.pack_type.tag = "FloodRequest"
      THEN HandleFlood(d, packet, ord)
      ELSE HandleRouted(d, packet, draw)

\* HashMap::iter() visits the keys in an unspecified order.
KeyOrders(K) ==
    {s \in [1..Cardinality(K) -> K] : \A i, j \in DOMAIN s : s[i] = s[j] => i = j}

\* The choices one call of handle_packet depends on.
DrawsOf(d, packet) == IF ReachesDraw(d, packet) THEN Draws ELSE {DrawMin}
OrdersOf(d, packet) ==
    IF packet.pack_type.tag = "FloodRequest" THEN KeyOrders(packet_send[d])
    ELSE {<<>>}

\* ------------------------------------------------------------------- Init
\* Neighbor tables handed to SkyLinkDrone::new by the initializer: a chain
\* 0-1-2-3, a triangle 0-1-2-0 beside an unconnected drone 3, and a star
\* around drone 1.
Chain == (1 :> {0, 2}) @@ (2 :> {1, 3}) @@ (3 :> {2})
Triangle == (1 :> {0, 2}) @@ (2 :> {0, 1}) @@ (3 :> {})
Star == (1 :> {0, 2, 3}) @@ (2 :> {1}) @@ (3 :> {1})
Topologies == {Chain, Triangle, Star}

\* pdr arguments (f32), written in thousandths: 0.0, 0.505, 1.0.
PdrInputs == {0, 505, 1000}
\* (pdr*100.0) as u32 (lines 32 and 78): scale, then truncate.
pdr_as_u32(x) == (x * 100) \div 1000

NoCmd == [cmd |-> "None", node |-> 0, rate |-> 0]
NoOutcome == Outcome(NoChecks, <<>>, <<>>, FALSE)
\* Fields of drone d a handler reads, as they are before the call.
Fields(d) == [packet_send |-> packet_send[d], pdr |-> pdr[d],
              flood_ids |-> flood_ids[d], crashing |-> crashing[d]]
NoFields == [packet_send |-> {}, pdr |-> 0, flood_ids |-> {}, crashing |-> FALSE]
\* The observation of one iteration of d's run loop: the arm taken (op), the
\* message received, the drone as it was before the call (pre), how many
\* commands and packets were queued then, whether d had handled the packet's
\* flood id before (again), the node the packet came from (from), and what
\* the call did (out).
Observe(d, op, packet, cmd, out) ==
    [node |-> d, op |-> op, input |-> packet, cmd |-> cmd, pre |-> Fields(d),
     commands |-> Len(controller_recv[d]), packets |-> Len(packet_recv[d]),
     again |-> packet.pack_type.flood_id \in serviced[d],
     from |-> IF packet_from[d] # <<>> THEN Head(packet_from[d]) ELSE Client,
     out |-> out]
NoObs == [node |-> 0, op |-> "none", input |-> NoPacket, cmd |-> NoCmd,
          pre |-> NoFields, commands |-> 0, packets |-> 0, again |-> FALSE,
          from |-> Client, out |-> NoOutcome]

\* The state after SkyLinkDrone::new (lines 20-36) of every drone, for the
\* neighbor tables T and the pdr arguments X.
New(T, X) ==
    /\ packet_send \in T
    /\ \E x \in X : pdr = [d \in Drones |-> pdr_as_u32(x)]
    /\ flood_ids = [d \in Drones |-> {}]
    /\ crashing = [d \in Drones |-> FALSE]
    /\ packet_recv = [d \in Drones |-> <<>>]
    /\ packet_from = [d \in Drones |-> <<>>]
    /\ controller_recv = [d \in Drones |-> <<>>]
    /\ thread = [d \in Drones |-> "running"]
    /\ client_up = TRUE
    /\ pkt_closed = {}
    /\ cmd_closed = {}
    /\ serviced = [d \in Drones |-> {}]
    /\ obs = NoObs

Init == New(Topologies, PdrInputs)

\* ---------------------------------------------------------------- run loop
RECURSIVE Deliver(_, _)
\* The channels after the sends that returned Ok, in order; a packet sent
\* to the client leaves the model.
Deliver(queues, sends) ==
    IF sends = <<>> THEN queues
    ELSE LET s == Head(sends)
             q == IF s.ok /\ s.to \in Drones
                    THEN [queues EXCEPT ![s.to] = Append(@, s.pkt)]
                    ELSE queues
         IN Deliver(q, Tail(sends))

RECURSIVE Senders(_, _, _)
\* The sender recorded beside each packet Deliver queues: drone d.
Senders(froms, sends, d) ==
    IF sends = <<>> THEN froms
    ELSE LET s == Head(sends)
             f == IF s.ok /\ s.to \in Drones
                    THEN [froms EXCEPT ![s.to] = Append(@, d)]
                    ELSE froms
         IN Senders(f, Tail(sends), d)

\* Mutant: the flag is not consulted, the Active arms stay in service.
Active_always(d) == TRUE

\* Mutant: a crashing drone stays Active while packets are queued.
Active_until_drained(d) == ~crashing[d] \/ packet_recv[d] # <<>>

\* Line 40: the branch of the loop taken.
Active(d) == ~crashing[d]

\* Mutant: select! without the bias, the packet arm fires whenever a packet
\* is queued.
PacketArmChosen_unbiased(d) == packet_recv[d] # <<>>

\* select_biased! (lines 41-52): the command arm is ready when a command is
\* queued or the channel is disconnected, and is then taken first.
CommandArmReady(d) == controller_recv[d] # <<>> \/ d \in cmd_closed
PacketArmChosen(d) == ~CommandArmReady(d) /\ packet_recv[d] # <<>>

\* A panic unwinds the thread: the drone and both receivers are dropped.
AfterCall(d, out, queues, froms) ==
    IF out.panic
      THEN /\ thread' = [thread EXCEPT ![d] = "panicked"]
           /\ packet_recv' = [queues EXCEPT ![d] = <<>>]
           /\ packet_from' = [froms EXCEPT ![d] = <<>>]
           /\ controller_recv' = [controller_recv EXCEPT ![d] = <<>>]
      ELSE /\ packet_recv' = queues
           /\ packet_from' = froms
           /\ UNCHANGED <<thread, controller_recv>>

\* Lines 47-51: Active, the packet arm fires with Ok(packet).
RecvPacket(d) ==
    /\ thread[d] = "running"
    /\ Active(d)
    /\ PacketArmChosen(d)
    /\ LET packet == Head(packet_recv[d])
       IN \E draw \in DrawsOf(d, packet), ord \in OrdersOf(d, packet) :
            LET out == handle_packet(d, packet, draw, ord)
                queues == Deliver([packet_recv EXCEPT ![d] = Tail(@)], out.sends)
                froms == Senders([packet_from EXCEPT ![d] = Tail(@)], out.sends, d)
            IN /\ \A t \in Drones : Len(queues[t]) <= MaxQueue
               /\ AfterCall(d, out, queues, froms)
               /\ obs' = Observe(d, "packet", packet, NoCmd, out)
               /\ serviced' = IF packet.pack_type.tag = "FloodRequest"
                                THEN [serviced EXCEPT
                                        ![d] = @ \cup {packet.pack_type.flood_id}]
                                ELSE serviced
    /\ UNCHANGED <<packet_send, pdr, flood_ids, crashing, client_up,
                   pkt_closed, cmd_closed>>

\* ------------------------------------------------------------ environment
Quiescent == \A d \in Drones : packet_recv[d] = <<>>

Origin(n) == <<n, NodeTypeOf(n)>>
FragmentIndices == {1}
SessionIds == {7}
FloodIds == {7, 8}
\* Non-flood packets a peer may hand to a drone: any header, any cursor.
RoutedInputs ==
    {Packet(pt, hops, hi, sid) :
        pt \in {MsgFragment(fi) : fi \in FragmentIndices} \cup {Ack(0)},
        hops \in SeqsBetween(Nodes, 0, MaxHops), hi \in 0..MaxHops,
        sid \in SessionIds}
\* FloodRequests a peer may hand to a drone: any trace, the empty one too.
FloodInputs ==
    {Packet(FloodRequest(fid, [i \in DOMAIN ids |-> Origin(ids[i])]), <<>>, 0, sid) :
        fid \in FloodIds, ids \in SeqsBetween(Nodes, 0, MaxTrace),
        sid \in SessionIds}

\* A holder of the Sender of d's packet channel sends p; the sends of the
\* environment are recorded as the client's.
Send(d, p) ==
    /\ thread[d] = "running"
    /\ d \notin pkt_closed
    /\ packet_recv' = [packet_recv EXCEPT ![d] = Append(@, p)]
    /\ packet_from' = [packet_from EXCEPT ![d] = Append(@, Client)]
    /\ serviced' = [e \in Drones |-> {}]
    /\ obs' = NoObs
    /\ UNCHANGED <<packet_send, pdr, flood_ids, crashing, controller_recv,
                   thread, client_up, pkt_closed, cmd_closed>>

\* One packet is sent in at a time, into an idle network.
Idle == Quiescent /\ obs = NoObs
InjectRouted == Idle /\ \E d \in Drones, p \in RoutedInputs : Send(d, p)
InjectFlood == Idle /\ \E d \in Drones, p \in FloodInputs : Send(d, p)

\* The client drops the receiver of its packet channel.
ClientLeave ==
    /\ client_up
    /\ client_up' = FALSE
    /\ obs' = NoObs
    /\ UNCHANGED <<packet_send, pdr, flood_ids, serviced, crashing, packet_recv, packet_from,
                   controller_recv, thread, pkt_closed, cmd_closed>>

\* The observation of the last call is discarded once the network is idle;
\* the next packet is sent in after that.
Settle ==
    /\ Quiescent
    /\ obs # NoObs
    /\ obs' = NoObs
    /\ UNCHANGED <<packet_send, pdr, flood_ids, serviced, crashing, packet_recv, packet_from,
                   controller_recv, thread, client_up, pkt_closed, cmd_closed>>

Step == \E d \in Drones : RecvPacket(d)

Next == InjectRouted \/ InjectFlood \/ ClientLeave \/ Settle \/ Step

Spec == Init /\ [][Next]_vars

\* ---------------------------------------------------------- handle_command
AddSender(n) == [cmd |-> "AddSender", node |-> n, rate |-> 0]
RemoveSender(n) == [cmd |-> "RemoveSender", node |-> n, rate |-> 0]
SetPacketDropRate(x) == [cmd |-> "SetPacketDropRate", node |-> 0, rate |-> x]
Crash == [cmd |-> "Crash", node |-> 0, rate |-> 0]

\* Mutant: RemoveSender clears the whole table.
handle_command_remove_all(f, command) ==
    CASE command.cmd = "AddSender" ->
           [f EXCEPT !.packet_send = @ \cup {command.node}]
      [] command.cmd = "SetPacketDropRate" ->
           [f EXCEPT !.pdr = pdr_as_u32(command.rate)]
      [] command.cmd = "Crash" -> [f EXCEPT !.crashing = TRUE]
      [] command.cmd = "RemoveSender" ->
           IF command.node \in f.packet_send
             THEN [f EXCEPT !.packet_send = {}]
             ELSE f

\* handle_command (lines 72-89) on the fields f of the drone.
handle_command(f, command) ==
    CASE command.cmd = "AddSender" ->
           [f EXCEPT !.packet_send = @ \cup {command.node}]
      [] command.cmd = "SetPacketDropRate" ->
           [f EXCEPT !.pdr = pdr_as_u32(command.rate)]
      [] command.cmd = "Crash" -> [f EXCEPT !.crashing = TRUE]
      [] command.cmd = "RemoveSender" ->
           IF command.node \in f.packet_send
             THEN [f EXCEPT !.packet_send = @ \ {command.node}]
             ELSE f

\* Lines 42-46: Active, the command arm fires with Ok(command).
RecvCommand(d) ==
    /\ thread[d] = "running"
    /\ Active(d)
    /\ controller_recv[d] # <<>>
    /\ LET command == Head(controller_recv[d])
           f == handle_command(Fields(d), command)
       IN /\ packet_send' = [packet_send EXCEPT ![d] = f.packet_send]
          /\ pdr' = [pdr EXCEPT ![d] = f.pdr]
          /\ crashing' = [crashing EXCEPT ![d] = f.crashing]
          /\ flood_ids' = [flood_ids EXCEPT ![d] = f.flood_ids]
          /\ obs' = Observe(d, "command", NoPacket, command, NoOutcome)
    /\ controller_recv' = [controller_recv EXCEPT ![d] = Tail(@)]
    /\ UNCHANGED <<packet_recv, packet_from, thread, client_up, pkt_closed, cmd_closed,
                   serviced>>

\* Lines 42-46: Active, the command channel is disconnected and empty, the
\* command arm fires with Err and the loop goes round.
RecvCommandErr(d) ==
    /\ thread[d] = "running"
    /\ Active(d)
    /\ controller_recv[d] = <<>>
    /\ d \in cmd_closed
    /\ obs' = Observe(d, "command_err", NoPacket, NoCmd, NoOutcome)
    /\ UNCHANGED <<packet_send, pdr, flood_ids, serviced, crashing, packet_recv, packet_from,
                   controller_recv, thread, client_up, pkt_closed, cmd_closed>>

\* Lines 47-51: Active, the packet channel is disconnected and empty, the
\* packet arm fires with Err and the loop goes round.
RecvPacketErr(d) ==
    /\ thread[d] = "running"
    /\ Active(d)
    /\ ~CommandArmReady(d)
    /\ packet_recv[d] = <<>>
    /\ d \in pkt_closed
    /\ obs' = Observe(d, "packet_err", NoPacket, NoCmd, NoOutcome)
    /\ UNCHANGED <<packet_send, pdr, flood_ids, serviced, crashing, packet_recv, packet_from,
                   controller_recv, thread, client_up, pkt_closed, cmd_closed>>

\* Lines 54-59: crashing, the packet arm fires with Ok(packet);
\* crashing_handle_packet (lines 141-143) has an empty body.
DrainPacket(d) ==
    /\ thread[d] = "running"
    /\ crashing[d]
    /\ packet_recv[d] # <<>>
    /\ packet_recv' = [packet_recv EXCEPT ![d] = Tail(@)]
    /\ packet_from' = [packet_from EXCEPT ![d] = Tail(@)]
    /\ obs' = Observe(d, "drain", Head(packet_recv[d]), NoCmd, NoOutcome)
    /\ UNCHANGED <<packet_send, pdr, flood_ids, serviced, crashing, controller_recv,
                   thread, client_up, pkt_closed, cmd_closed>>

\* Lines 60-62: crashing, the packet channel is disconnected and empty; the
\* Err arm is empty and the loop goes round.
DrainErr(d) ==
    /\ thread[d] = "running"
    /\ crashing[d]
    /\ packet_recv[d] = <<>>
    /\ d \in pkt_closed
    /\ obs' = Observe(d, "drain_err", NoPacket, NoCmd, NoOutcome)
    /\ UNCHANGED <<packet_send, pdr, flood_ids, serviced, crashing, packet_recv, packet_from,
                   controller_recv, thread, client_up, pkt_closed, cmd_closed>>

\* One iteration of run (lines 38-68) of drone d.
Run(d) ==
    \/ RecvCommand(d)
    \/ RecvCommandErr(d)
    \/ RecvPacket(d)
    \/ RecvPacketErr(d)
    \/ DrainPacket(d)
    \/ DrainErr(d)

\* ------------------------------------------------------------- controller
\* A drone 3 linked one way to drones 1 and 2 of the triangle: the
\* AddSender(3) of its neighbors has not been issued.
Spur == (1 :> {0, 2}) @@ (2 :> {0, 1}) @@ (3 :> {1, 2})

\* The drone the controller reconfigures; the others keep their fields.
Commanded == {3}
Commands(d) ==
    {AddSender(n) : n \in (Nodes \ {d}) \ pkt_closed}
    \cup {RemoveSender(n) : n \in Nodes \ {d}}
    \cup {SetPacketDropRate(x) : x \in PdrInputs} \cup {Crash}

\* The controller acts while no packet is queued.  It sends a command on
\* d's command channel, keeping one command outstanding.
ControllerSend ==
    \E d \in Commanded :
        /\ Quiescent
        /\ thread[d] = "running"
        /\ d \notin cmd_closed
        /\ controller_recv[d] = <<>>
        /\ \E c \in Commands(d) :
             controller_recv' = [controller_recv EXCEPT ![d] = Append(@, c)]
        /\ obs' = NoObs
        /\ UNCHANGED <<packet_send, pdr, flood_ids, serviced, crashing, packet_recv, packet_from,
                       thread, client_up, pkt_closed, cmd_closed>>

\* The controller drops the Sender of d's command channel.
ControllerDrop ==
    \E d \in Commanded :
        /\ Quiescent
        /\ d \notin cmd_closed
        /\ cmd_closed' = cmd_closed \cup {d}
        /\ obs' = NoObs
        /\ UNCHANGED <<packet_send, pdr, flood_ids, serviced, crashing, packet_recv, packet_from,
                       controller_recv, thread, client_up, pkt_closed>>

\* Every holder of a Sender of d's packet channel drops it; no running
\* drone keeps d in its table.
PeersDrop ==
    \E d \in Commanded :
        /\ Quiescent
        /\ d \notin pkt_closed
        /\ \A e \in Drones : thread[e] = "running" => d \notin packet_send[e]
        /\ pkt_closed' = pkt_closed \cup {d}
        /\ obs' = NoObs
        /\ UNCHANGED <<packet_send, pdr, flood_ids, serviced, crashing, packet_recv, packet_from,
                       controller_recv, thread, client_up, cmd_closed>>

\* Traffic of the client through the commanded drone: a route of distinct
\* nodes from the client, handed to its first drone with the cursor on it,
\* and a FloodRequest the client starts.
ClientRoutes ==
    {h \in SeqsBetween(Nodes, 2, MaxHops + 1) :
        /\ h[1] = Client
        /\ h[2] \in Commanded
        /\ \A i \in 2..Len(h) : h[i] \in Drones
        /\ \A i, j \in DOMAIN h : h[i] = h[j] => i = j}
ClientInputs ==
    {Packet(pt, h, 1, sid) :
        pt \in {MsgFragment(fi) : fi \in FragmentIndices} \cup {Ack(0)},
        h \in ClientRoutes, sid \in SessionIds}
ClientFloods ==
    {Packet(FloodRequest(fid, <<Origin(Client)>>), <<>>, 0, sid) :
        fid \in FloodIds, sid \in SessionIds}

InjectClient == Idle /\ \E p \in ClientInputs : Send(p.hops[2], p)
InjectClientFlood == Idle /\ \E d \in Commanded, p \in ClientFloods : Send(d, p)

StepCmd == \E d \in Drones : Run(d)

NextCmd ==
    \/ ControllerSend
    \/ ControllerDrop
    \/ PeersDrop
    \/ InjectClient
    \/ InjectClientFlood
    \/ Settle
    \/ StepCmd

InitCmd == New({Spur}, {0})

SpecCmd == InitCmd /\ [][NextCmd]_vars

\* ------------------------------------------------------------------ floods
\* A flood the client starts: the trace holds the client alone and the
\* request goes to a drone linked to the client.
InjectInitiated ==
    Idle /\ \E d \in Drones, p \in ClientFloods :
              Client \in packet_send[d] /\ Send(d, p)

NextFlood == InjectInitiated \/ Settle \/ Step

\* Every drone thread whose packet arm is ready gets to run.
FloodSpec ==
    Init /\ [][NextFlood]_vars /\ \A d \in Drones : WF_vars(RecvPacket(d))

\* ------------------------------------------------------------------ routed
\* One non-flood packet at a time, and every drone thread whose packet arm
\* is ready gets to run.
NextRouted == InjectRouted \/ Settle \/ Step

RoutedSpec ==
    Init /\ [][NextRouted]_vars /\ \A d \in Drones : WF_vars(RecvPacket(d))

\* Every drone thread with a ready arm gets to run.
FairSpecCmd == SpecCmd /\ \A d \in Drones : WF_vars(Run(d))

\* ================================================================== claims
IsPacketCall == obs.op = "packet"
IsRouted == IsPacketCall /\ obs.input.pack_type.tag # "FloodRequest"
IsFlood == IsPacketCall /\ obs.input.pack_type.tag = "FloodRequest"
\* The advanced cursor of the inbound packet.
Advanced == obs.input.hop_index + 1
\* The inbound packet is addressed to the node that handled it.
HopMatches ==
    /\ InBounds(obs.input, obs.input.hop_index)
    /\ HopAt(obs.input, obs.input.hop_index) = obs.node
IsNackOf(p, reason) ==
    /\ p.pack_type.tag = "Nack"
    /\ p.pack_type.nack_type.reason = reason
DroppedNack == obs.out.checks.tag = "Err" /\ IsNackOf(obs.out.checks.pkt, "Dropped")
\* A Fragment that passed the hop-match and the destination check.
FragmentAtDropCheck ==
    /\ IsRouted
    /\ obs.input.pack_type.tag = "MsgFragment"
    /\ HopMatches
    /\ Advanced < Len(obs.input.hops)

\* C1: a Fragment that reached the drop check is never turned into a Dropped
\* Nack when DropRate is 0 and always when DropRate is 100, whatever the draw.
C1_DropRateBoundary ==
    FragmentAtDropCheck =>
        /\ obs.pre.pdr = 0 => ~DroppedNack
        /\ obs.pre.pdr = 100 => DroppedNack

FloodQueued ==
    \E d \in Drones : \E i \in DOMAIN packet_recv[d] :
        packet_recv[d][i].pack_type.tag = "FloodRequest"

\* C2: a flood started by the client dies out: whenever a FloodRequest is
\* queued on some channel, a state with no FloodRequest on any channel
\* follows.
C2_FloodTerminates == FloodQueued ~> ~FloodQueued

\* C3: a flood id a running drone has handled is in its flood_ids from then
\* on.
C3_SeenFloodRecorded ==
    \A d \in Drones : thread[d] = "running" => serviced[d] \subseteq flood_ids[d]

SentFloodRequest ==
    \E i \in DOMAIN obs.out.sends :
        obs.out.sends[i].pkt.pack_type.tag = "FloodRequest"
\* send_flood_response was called: the response went through apply_checks.
TookAnswerPath == obs.out.checks.tag # "None"

\* C4: a drone with two or more neighbors that receives a FloodRequest whose
\* flood id it has handled before answers it and sends the FloodRequest to no
\* neighbor.
C4_FloodDedupIdempotent ==
    (IsFlood /\ obs.again /\ Cardinality(obs.pre.packet_send) >= 2
       /\ obs.input.pack_type.path_trace # <<>>)
      => ~SentFloodRequest /\ TookAnswerPath

\* C5: no drone thread panics while handling a packet.
C5_NeverPanics == \A d \in Drones : thread[d] # "panicked"

\* C6: a draining drone whose packet channel has lost every Sender
\* eventually leaves its run loop.
C6_ActorTerminates ==
    \A d \in Drones : (crashing[d] /\ d \in pkt_closed) ~> (thread[d] = "returned")

\* A command is still queued after the step if it was queued before it.
KeepsCommands(d) ==
    /\ Len(controller_recv'[d]) >= Len(controller_recv[d])
    /\ SubSeq(controller_recv'[d], 1, Len(controller_recv[d])) = controller_recv[d]

\* C7: every drone starts Active; handling Crash makes it Draining; a
\* Draining drone stays Draining, handles no queued command and keeps its
\* neighbor table and drop rate.
C7_Lifecycle ==
    /\ \A d \in Drones : ~crashing[d]
    /\ [][/\ (obs'.op = "command" /\ obs'.cmd = Crash /\ obs' # obs)
               => crashing'[obs'.node]
          /\ \A d \in Drones :
                crashing[d] =>
                  /\ crashing'[d]
                  /\ KeepsCommands(d)
                  /\ packet_send'[d] = packet_send[d]
                  /\ pdr'[d] = pdr[d]]_vars
C7_Witness ==
    \E d \in Drones : crashing[d] /\ controller_recv[d] # <<>>
                        /\ obs.op = "drain" /\ obs.node = d

\* C8: an Active drone with a command and a packet both queued takes the
\* command; no packet is handled while a command is queued.
C8_CommandPriority ==
    /\ IsPacketCall => obs.commands = 0
    /\ \A d \in Drones :
          (thread[d] = "running" /\ ~crashing[d] /\ controller_recv[d] # <<>>
             /\ packet_recv[d] # <<>>)
            => ENABLED RecvCommand(d) /\ ~ENABLED RecvPacket(d)
C8_Witness == obs.op = "command" /\ obs.packets > 0 /\ ~obs.pre.crashing

NackBuilt(reason, arg) ==
    /\ obs.out.checks.tag = "Err"
    /\ obs.out.checks.pkt.pack_type =
         Nack(IF obs.input.pack_type.tag = "MsgFragment"
                THEN obs.input.pack_type.fragment_index ELSE 0,
              [reason |-> reason, node |-> arg])
    /\ obs.out.checks.pkt.hops = Rev(obs.input.hops)
    /\ obs.out.checks.pkt.hop_index = 1
    /\ obs.out.checks.pkt.session_id = obs.input.session_id
\* Nothing but the Nack is put on a channel, and the Nack at most once.
OnlyNackSent ==
    /\ Len(obs.out.sends) <= 1
    /\ \A i \in DOMAIN obs.out.sends : obs.out.sends[i].pkt = obs.out.checks.pkt
    /\ ~obs.out.panic =>
         obs.out.sends = <<[to |-> obs.out.checks.pkt.hops[2],
                            pkt |-> obs.out.checks.pkt, ok |-> TRUE]>>

\* C9: a non-flood packet whose hops[hop_index] is not the handling drone
\* yields a Nack UnexpectedRecipient(drone) with the reversed header and
\* hop_index 1, built from the packet as received, and the packet is not
\* forwarded.
C9_UnexpectedRecipient ==
    (IsRouted /\ InBounds(obs.input, obs.input.hop_index)
       /\ HopAt(obs.input, obs.input.hop_index) # obs.node)
      => NackBuilt("UnexpectedRecipient", obs.node) /\ OnlyNackSent
C9_Witness ==
    /\ IsRouted /\ InBounds(obs.input, obs.input.hop_index)
    /\ HopAt(obs.input, obs.input.hop_index) # obs.node
    /\ InBounds(obs.input, Advanced) /\ HopAt(obs.input, Advanced) = obs.node
    /\ ~obs.out.panic /\ Len(obs.out.sends) = 1

HasNextHop == IsRouted /\ HopMatches /\ Advanced < Len(obs.input.hops)
NextHop == HopAt(obs.input, Advanced)

\* C11: once RemoveSender(n) has taken n out of the neighbor table, a
\* non-dropped packet addressed to the drone whose next hop is n yields a Nack
\* with reason ErrorInRouting(n).
C11_RemovedNextHop ==
    (HasNextHop /\ NextHop \notin obs.pre.packet_send /\ ~DroppedNack)
      => /\ obs.out.checks.tag = "Err"
         /\ obs.out.checks.pkt.pack_type.tag = "Nack"
         /\ obs.out.checks.pkt.pack_type.nack_type = ErrorInRouting(NextHop)

\* The hop before the handling drone on the route of the inbound packet.
PrecedingHop == HopAt(obs.input, obs.input.hop_index - 1)

\* C12: a drone that is not the first hop of the route, whose preceding hop
\* is a neighbor with a live channel, sends every Nack it builds from the
\* checks to that preceding hop.
C12_NackTowardOriginator ==
    (IsRouted /\ HopMatches /\ obs.input.hop_index >= 1
       /\ obs.out.checks.tag = "Err"
       /\ PrecedingHop \in obs.pre.packet_send /\ Alive(PrecedingHop))
      => /\ obs.out.sends # <<>>
         /\ obs.out.sends[1].pkt = obs.out.checks.pkt
         /\ obs.out.sends[1].to = PrecedingHop

RECURSIVE Placed(_)
\* The packets of the sends that returned Ok, in order.
Placed(sends) ==
    IF sends = <<>> THEN <<>>
    ELSE (IF Head(sends).ok THEN <<Head(sends).pkt>> ELSE <<>>)
           \o Placed(Tail(sends))

\* C14: the PacketSent events of a call that does not panic are exactly the
\* packets the call placed on a channel, one event per send.
C14_TelemetryExactlyOnce ==
    (IsPacketCall /\ ~obs.out.panic) => obs.out.events = Placed(obs.out.sends)

\* C15: the traffic one non-flood packet triggers dies out: whenever a packet
\* is queued on some channel, a state with every channel empty follows.
C15_NackTrafficEnds == ~Quiescent ~> Quiescent

\* The request as send_flood_response receives it, and its answer.
AnsweredTrace ==
    Append(obs.input.pack_type.path_trace, <<obs.node, "Drone">>)
PrevContributor ==
    obs.input.pack_type.path_trace[Len(obs.input.pack_type.path_trace)][1]

\* C16: a drone that answers a FloodRequest whose preceding contributor is a
\* neighbor places on that neighbor's channel a FloodResponse whose
\* path_trace is the incoming trace plus (drone, Drone) and whose hops are
\* the reverse of that trace.
C16_FloodResponseSent ==
    (IsFlood /\ TookAnswerPath /\ PrevContributor \in obs.pre.packet_send
       /\ Alive(PrevContributor))
      => \E i \in DOMAIN obs.out.sends :
            /\ obs.out.sends[i].to = PrevContributor
            /\ obs.out.sends[i].ok
            /\ obs.out.sends[i].pkt.pack_type =
                 FloodResponse(obs.input.pack_type.flood_id, AnsweredTrace)
            /\ obs.out.sends[i].pkt.hops = Rev(TraceIds(AnsweredTrace))

\* C17: no drone sends a FloodRequest to the node it received it from.
C17_NoFloodBackToSender ==
    IsFlood =>
        \A i \in DOMAIN obs.out.sends :
            obs.out.sends[i].pkt.pack_type.tag = "FloodRequest"
              => obs.out.sends[i].to # obs.from

\* C18: when the packet passed the checks and the send to the next hop
\* fails, the drone does not panic, sends the ErrorInRouting(next_hop) Nack
\* with the reversed header to hops[1] of that header, and emits PacketSent
\* for the Nack.
C18_FailedForward ==
    (IsRouted /\ obs.out.checks.tag = "Ok" /\ ~obs.out.sends[1].ok)
      => LET err == Packet(Nack(IF obs.input.pack_type.tag = "MsgFragment"
                                  THEN obs.input.pack_type.fragment_index ELSE 0,
                                ErrorInRouting(NextHop)),
                           Rev(obs.input.hops), 1, obs.input.session_id)
         IN /\ ~obs.out.panic
            /\ Len(obs.out.sends) = 2
            /\ obs.out.sends[2].pkt = err
            /\ obs.out.sends[2].to = err.hops[2]
            /\ obs.out.events = <<err>>

\* The inbound packet with the cursor moved one hop on.
Forwarded == [obs.input EXCEPT !.hop_index = @ + 1]

\* C19: a non-flood packet that passes every check and whose next hop
\* accepts it is placed once on the channel of hops[hop_index + 1], with the
\* same kind, hops and session_id and hop_index increased by 1, and one
\* PacketSent event carries that packet.
C19_SuccessfulForward ==
    (IsRouted /\ obs.out.checks.tag = "Ok" /\ obs.out.sends[1].ok)
      => /\ HasNextHop
         /\ obs.out.sends = <<[to |-> NextHop, pkt |-> Forwarded, ok |-> TRUE]>>
         /\ obs.out.events = <<Forwarded>>
         /\ ~obs.out.panic
         /\ NextHop \in Drones =>
               /\ packet_recv[NextHop] # <<>>
               /\ packet_recv[NextHop][Len(packet_recv[NextHop])] = Forwarded
C19_Witness ==
    /\ IsRouted /\ obs.out.checks.tag = "Ok" /\ obs.out.sends[1].ok
    /\ NextHop \in Drones
    /\ obs.input.pack_type.tag = "MsgFragment"

\* The reason the checks give for the inbound packet under draw.
ReasonOf(draw) ==
    LET c == apply_checks(obs.node, obs.input, draw)
    IN IF c.tag = "Err" THEN c.pkt.pack_type.nack_type.reason ELSE c.tag
\* The draw drops a Fragment under the stored drop rate.
Drops(draw) == obs.input.pack_type.tag = "MsgFragment" /\ draw > obs.pre.pdr

\* C20: the first failing check in the order hop-match, destination, drop,
\* next-hop decides the result, whatever the later checks would say.
C20_CheckOrder ==
    (IsRouted /\ InBounds(obs.input, obs.input.hop_index))
      => /\ \E draw \in Draws :
               obs.out.checks = apply_checks(obs.node, obs.input, draw)
         /\ \A draw \in Draws :
               ReasonOf(draw) =
                 IF ~HopMatches THEN "UnexpectedRecipient"
                 ELSE IF Advanced >= Len(obs.input.hops) THEN "DestinationIsDrone"
                 ELSE IF Drops(draw) THEN "Dropped"
                 ELSE IF NextHop \notin obs.pre.packet_send THEN "ErrorInRouting"
                 ELSE "Ok"
C20_Witness ==
    /\ HasNextHop /\ NextHop \notin obs.pre.packet_send
    /\ DroppedNack

\* The step takes the first queued command of Active drone d.
TakesCommand(d) ==
    /\ thread[d] = "running" /\ ~crashing[d]
    /\ controller_recv[d] # <<>>
    /\ controller_recv'[d] = Tail(controller_recv[d])
\* The fields of drone d other than those named are left as they were.
SameTable(d) == packet_send'[d] = packet_send[d]
SameRate(d) == pdr'[d] = pdr[d]
SameLifecycle(d) == crashing'[d] = crashing[d]

AddressedTo(p, m) == InBounds(p, p.hop_index) /\ HopAt(p, p.hop_index) = m

\* C22: every non-flood packet a drone has placed on the channel of a
\* neighbor m, forwarded packet or Nack, has hop_index < len(hops) and
\* hops[hop_index] = m.
C22_HeaderOnTheWire ==
    /\ IsPacketCall =>
          \A i \in DOMAIN obs.out.sends :
              (obs.out.sends[i].ok
                 /\ obs.out.sends[i].pkt.pack_type.tag # "FloodRequest")
                => AddressedTo(obs.out.sends[i].pkt, obs.out.sends[i].to)
    /\ \A d \in Drones : \A i \in DOMAIN packet_recv[d] :
          (packet_from[d][i] \in Drones
             /\ packet_recv[d][i].pack_type.tag # "FloodRequest")
            => AddressedTo(packet_recv[d][i], d)
C22_Witness ==
    \E d \in Drones : \E i \in DOMAIN packet_recv[d] :
        /\ packet_from[d][i] \in Drones
        /\ packet_recv[d][i].pack_type.tag = "Nack"
        /\ IsRouted /\ obs.out.checks.tag = "Err"
        /\ obs.out.sends # <<>> /\ obs.out.sends[1].to = d

\* C23: a packet queued on the packet channel of a running Active drone is
\* eventually taken off it, also after the controller has dropped the Sender
\* of the drone's command channel.  Stated for the commanded drone, whose
\* channel holds the client's packets alone, one at a time: its queue is
\* empty once the pending packet has been handled.
C23_PacketEventuallyHandled ==
    \A d \in Commanded :
        (thread[d] = "running" /\ ~crashing[d] /\ packet_recv[d] # <<>>)
          ~> (packet_recv[d] = <<>> \/ thread[d] # "running")

\* The step takes the first queued packet of crashing drone d.
TakesWhileCrashing(d) ==
    /\ thread[d] = "running" /\ crashing[d]
    /\ packet_recv[d] # <<>>
    /\ packet_recv'[d] = Tail(packet_recv[d])

\* C24: a packet a crashing drone receives, FloodRequest or not, is consumed
\* by the draining arm: nothing is put on any channel, no PacketSent event
\* is emitted, and no field of any drone changes.
C24_DrainingDiscards ==
    [][\A d \in Drones :
          TakesWhileCrashing(d) =>
            /\ obs'.op = "drain" /\ obs'.node = d
            /\ obs'.input = Head(packet_recv[d])
            /\ obs'.out.sends = <<>> /\ obs'.out.events = <<>>
            /\ ~obs'.out.panic
            /\ \A e \in Drones \ {d} : packet_recv'[e] = packet_recv[e]
            /\ UNCHANGED <<packet_send, pdr, flood_ids, crashing, thread,
                           controller_recv>>]_vars
C24_Witness ==
    /\ obs.op = "drain" /\ obs.pre.crashing
    /\ obs.input.pack_type.tag = "FloodRequest"
    /\ Cardinality(obs.pre.packet_send) >= 2

====
